---- MODULE Spec2Model ----
(***************************************************************************)
(* docs/conf.py of citrus-engine: the Sphinx configuration module and its  *)
(* 'builder-inited' hook run_doxygen, which shells out to Doxygen.         *)
(*                                                                         *)
(* Paths are sequences of components (<<"repo", "docs">> is /repo/docs).   *)
(* A printed line is [msg, arg]: the literal text of the print call and    *)
(* the value its f-string interpolates (a path, or the one-element         *)
(* sequence holding the captured stderr text; <<>> when nothing is         *)
(* interpolated).                                                          *)
(***************************************************************************)
EXTENDS Integers, Sequences, FiniteSets, TLC

VARIABLES module, app, fs, tool, pc, frame, child, stdout, calls, envChanges

vars == <<module, app, fs, tool, pc, frame, child, stdout, calls, envChanges>>

\* ---- bounds ---------------------------------------------------------------
MaxCalls == 2
MaxEnvChanges == 1
MaxExitCode == 2

\* ---- module-level configuration (conf.py lines 8-48) ----------------------
ConfPy ==
    [ project |-> "Citrus Engine",
      copyright |-> "2024, Citrus Engine Contributors",
      author |-> "Citrus Engine Contributors",
      release |-> "0.0.1",
      version |-> "0.0.1",
      extensions |-> << "breathe", "sphinx.ext.autodoc", "sphinx.ext.intersphinx",
                        "sphinx.ext.todo", "sphinx.ext.viewcode" >>,
      templates_path |-> << "_templates" >>,
      exclude_patterns |-> << "_build", "_doxygen", "Thumbs.db", ".DS_Store" >>,
      html_theme |-> "sphinx_rtd_theme",
      html_static_path |-> << "_static" >>,
      html_logo |-> "../assets/branding/citrus-engine-logo.svg",
      html_favicon |-> "../assets/branding/citrus-engine-logo.svg",
      html_theme_options |->
          [ logo_only |-> FALSE,
            prev_next_buttons_location |-> "bottom",
            style_external_links |-> FALSE,
            style_nav_header_background |-> "#ff8c00",
            collapse_navigation |-> FALSE,
            sticky_navigation |-> TRUE,
            navigation_depth |-> 4,
            includehidden |-> TRUE,
            titles_only |-> FALSE ],
      breathe_projects |-> [ CitrusEngine |-> "_doxygen/xml" ],
      breathe_default_project |-> "CitrusEngine" ]

\* ---- the environment: file system and the doxygen executable --------------
\* Directories that exist (the build root always does: Sphinx refuses to start
\* without its source directory).
Dirs == { <<>>, <<"repo">>, <<"repo", "docs">> }

\* Places a file named Doxyfile may or may not exist.
DoxyfilePlaces == { <<"Doxyfile">>, <<"repo", "Doxyfile">>, <<"repo", "docs", "Doxyfile">> }

\* Values app.srcdir may take.
BuildRoots == { <<"repo">>, <<"repo", "docs">> }

ExitCodes == (-1) .. MaxExitCode

StderrTexts == { "", "error: bad tag" }

\* What the doxygen executable on PATH does: absent, never exits, or exits
\* with a status and a standard-error text.
Tools ==
    { [installed |-> FALSE, hangs |-> FALSE, returncode |-> 0, stderr |-> ""],
      [installed |-> TRUE, hangs |-> TRUE, returncode |-> 0, stderr |-> ""] }
    \cup { [installed |-> TRUE, hangs |-> FALSE, returncode |-> rc, stderr |-> e] :
             rc \in ExitCodes, e \in StderrTexts }

\* ---- path handling --------------------------------------------------------
\* os.path.join of relative components: plain concatenation, no normalisation.
OsPathJoin(base, parts) == base \o parts

Parent(p) == IF p = <<>> THEN <<>> ELSE SubSeq(p, 1, Len(p) - 1)

Step(cur, name) == IF name = ".." THEN Parent(cur) ELSE Append(cur, name)

\* Path lookup as the kernel does it: every component before the last must be
\* an existing directory, ".." steps to the parent.
RECURSIVE Lookup(_, _, _)
Lookup(files, cur, rest) ==
    IF rest = <<>>
    THEN cur \in Dirs \cup files
    ELSE cur \in Dirs /\ Lookup(files, Step(cur, Head(rest)), Tail(rest))

OsPathExists(files, p) == Lookup(files, <<>>, p)

\* ---- run_doxygen, piece by piece -----------------------------------------
DoxygenConfigNoParent(srcdir) == OsPathJoin(srcdir, << "Doxyfile" >>)

\* line 53
DoxygenConfig(srcdir) == OsPathJoin(srcdir, << "..", "Doxyfile" >>)

ConfigFoundAlways == TRUE

ConfigFoundOnce ==
    /\ OsPathExists(fs, DoxygenConfig(app.srcdir))
    /\ \A i \in 1 .. Len(calls) : calls[i].popens = 0

\* line 54
ConfigFound == OsPathExists(fs, DoxygenConfig(app.srcdir))

RunningLine == [msg |-> "Running Doxygen...", arg |-> <<>>]

CompletedLine == [msg |-> "Doxygen completed", arg |-> <<>>]

StderrLine(text) == [msg |-> "Doxygen warning/error output:\n", arg |-> << text >>]

\* line 65
NotFoundLine(path) == [msg |-> "Warning: Doxyfile not found at ", arg |-> path]

\* lines 57-60: the argument list and working directory of the child
SpawnArgv(config) == << "doxygen", config >>

SpawnCwdParent(srcdir) == Parent(srcdir)

SpawnCwd(srcdir) == srcdir

\* subprocess.run is called without check=True: a non-zero status raises nothing.
SubprocessRunChecked(returncode) == returncode # 0

SubprocessRunRaises(returncode) == FALSE

\* subprocess.run is called without timeout=: it returns only once the child
\* has exited.
WaitOverWithTimeout(c) == TRUE

WaitOver(c) == c.state = "exited"

FinishLinesAlwaysStderr(result) == << StderrLine(result.stderr), CompletedLine >>

FinishLinesCompletedOnSuccess(result) ==
    IF result.returncode # 0 THEN << StderrLine(result.stderr) >> ELSE << CompletedLine >>

\* lines 61-63
FinishLines(result) ==
    (IF result.returncode # 0 THEN << StderrLine(result.stderr) >> ELSE <<>>)
        \o << CompletedLine >>

\* An assignment inside run_doxygen binds a local of the call's frame; the
\* function has no global statement.
BindGlobal(mod, loc, name, val) == [module |-> (name :> val) @@ mod, frame |-> loc]

BindLocal(mod, loc, name, val) == [module |-> mod, frame |-> [loc EXCEPT ![name] = val]]

NoResult == [returncode |-> 0, stderr |-> "", set |-> FALSE]

EmptyFrame == [doxygen_config |-> <<>>, result |-> NoResult]

NoChild == [state |-> "none", argv |-> <<>>, cwd |-> <<>>, hangs |-> FALSE,
            returncode |-> 0, stderr |-> ""]

\* ---- state ----------------------------------------------------------------
Init ==
    /\ module = ConfPy
    /\ app \in [srcdir : BuildRoots, listeners : { <<>> }]
    /\ fs \in SUBSET DoxyfilePlaces
    /\ tool \in Tools
    /\ pc = "idle"
    /\ frame = EmptyFrame
    /\ child = NoChild
    /\ stdout = <<>>
    /\ calls = <<>>
    /\ envChanges = 0

\* lines 67-68: setup registers run_doxygen for 'builder-inited'
Setup ==
    /\ app.listeners = <<>>
    /\ pc = "idle"
    /\ app' = [app EXCEPT !.listeners = Append(@, "run_doxygen")]
    /\ UNCHANGED <<module, fs, tool, pc, frame, child, stdout, calls, envChanges>>

NewCall(found) ==
    [ srcdir |-> app.srcdir, fs |-> fs, tool |-> tool, found |-> found,
      first |-> Len(stdout) + 1, last |-> Len(stdout),
      popens |-> 0, children |-> 0, argv |-> <<>>, cwd |-> <<>>,
      exited |-> FALSE, returncode |-> 0, outcome |-> "pending" ]

\* lines 51-60 and 64-65: 'builder-inited' fires and run_doxygen runs up to
\* its return, its exception, or the point where it blocks on the child.
RunDoxygenStart ==
    /\ pc # "waiting"
    /\ Len(calls) < MaxCalls
    /\ "run_doxygen" \in { app.listeners[i] : i \in 1 .. Len(app.listeners) }
    /\ LET config == DoxygenConfig(app.srcdir)
           bound == BindLocal(module, EmptyFrame, "doxygen_config", config)
           call == NewCall(ConfigFound)
       IN  /\ module' = bound.module
           /\ IF ~ConfigFound
              THEN /\ stdout' = Append(stdout, NotFoundLine(config))
                   /\ calls' = Append(calls, [call EXCEPT !.last = Len(stdout) + 1,
                                                          !.outcome = "skipped"])
                   /\ pc' = "returned"
                   /\ frame' = EmptyFrame
                   /\ child' = NoChild
              ELSE /\ stdout' = Append(stdout, RunningLine)
                   /\ IF ~tool.installed
                      THEN \* FileNotFoundError out of subprocess.run, not caught
                           /\ calls' = Append(calls, [call EXCEPT !.last = Len(stdout) + 1,
                                                                  !.popens = 1,
                                                                  !.argv = SpawnArgv(config),
                                                                  !.cwd = SpawnCwd(app.srcdir),
                                                                  !.outcome = "raised"])
                           /\ pc' = "raised"
                           /\ frame' = EmptyFrame
                           /\ child' = NoChild
                      ELSE /\ calls' = Append(calls, [call EXCEPT !.last = Len(stdout) + 1,
                                                                  !.popens = 1,
                                                                  !.children = 1,
                                                                  !.argv = SpawnArgv(config),
                                                                  !.cwd = SpawnCwd(app.srcdir)])
                           /\ pc' = "waiting"
                           /\ frame' = bound.frame
                           /\ child' = [state |-> "running",
                                        argv |-> SpawnArgv(config),
                                        cwd |-> SpawnCwd(app.srcdir),
                                        hangs |-> tool.hangs,
                                        returncode |-> tool.returncode,
                                        stderr |-> tool.stderr]
    /\ UNCHANGED <<app, fs, tool, envChanges>>

\* The child process exits (a tool that hangs never does).
ToolExits ==
    /\ pc = "waiting"
    /\ child.state = "running"
    /\ ~child.hangs
    /\ child' = [child EXCEPT !.state = "exited"]
    /\ UNCHANGED <<module, app, fs, tool, pc, frame, stdout, calls, envChanges>>

\* lines 57-63: subprocess.run returns the CompletedProcess and run_doxygen
\* prints and returns.
RunDoxygenFinish ==
    /\ pc = "waiting"
    /\ WaitOver(child)
    /\ LET result == [returncode |-> child.returncode, stderr |-> child.stderr, set |-> TRUE]
           bound == BindLocal(module, frame, "result", result)
           n == Len(calls)
           raises == SubprocessRunRaises(result.returncode)
           lines == IF raises THEN <<>> ELSE FinishLines(bound.frame.result)
       IN  /\ module' = bound.module
           /\ stdout' = stdout \o lines
           /\ calls' = [calls EXCEPT ![n] =
                          [@ EXCEPT !.last = Len(stdout) + Len(lines),
                                    !.exited = child.state = "exited",
                                    !.returncode = result.returncode,
                                    !.outcome = IF raises THEN "raised"
                                                ELSE IF result.returncode = 0 THEN "success"
                                                ELSE "tool_failure"]]
           /\ pc' = IF raises THEN "raised" ELSE "returned"
    /\ frame' = EmptyFrame
    /\ child' = NoChild
    /\ UNCHANGED <<app, fs, tool, envChanges>>

\* Between two builds the environment changes: a Doxyfile appears or
\* disappears, or the doxygen on PATH is replaced.
EnvChange ==
    /\ pc # "waiting"
    /\ envChanges < MaxEnvChanges
    /\ envChanges' = envChanges + 1
    /\ \/ \E f \in DoxyfilePlaces :
             /\ fs' = IF f \in fs THEN fs \ {f} ELSE fs \cup {f}
             /\ tool' = tool
       \/ \E t \in Tools \ {tool} :
             /\ tool' = t
             /\ fs' = fs
    /\ UNCHANGED <<module, app, pc, frame, child, stdout, calls>>

Next == Setup \/ RunDoxygenStart \/ ToolExits \/ RunDoxygenFinish \/ EnvChange

Spec == Init /\ [][Next]_vars

\* A doxygen that does not hang exits, and the hook, once its wait is over,
\* runs on: the build is single-threaded and nothing else is scheduled.
FairSpec == Spec /\ WF_vars(ToolExits) /\ WF_vars(RunDoxygenFinish)

\* ---- vocabulary of the properties ----------------------------------------
Calls == { calls[i] : i \in 1 .. Len(calls) }

\* What one call of run_doxygen printed.
Lines(c) == SubSeq(stdout, c.first, c.last)

LineSet(c) == { stdout[k] : k \in c.first .. c.last }

\* The call is over: run_doxygen returned or raised.
Over(c) == c.outcome # "pending"

Returned(c) == c.outcome \in { "skipped", "success", "tool_failure" }

\* The parent of the call's build root held a Doxyfile when the call began.
ParentHasDoxyfile(c) == Append(Parent(c.srcdir), "Doxyfile") \in c.fs

RECURSIVE Realpath(_, _)
Realpath(cur, rest) ==
    IF rest = <<>> THEN cur ELSE Realpath(Step(cur, Head(rest)), Tail(rest))

\* ---- C1 -------------------------------------------------------------------
\* C1: when the Doxyfile exists but the doxygen executable cannot be found,
\* run_doxygen does not raise and prints a line labelled for that case, other
\* than the lines it prints for a non-zero exit.
C1_ToolNotFoundHandled ==
    \A c \in Calls :
        (ParentHasDoxyfile(c) /\ ~c.tool.installed /\ Over(c)) =>
            /\ c.outcome # "raised"
            /\ \E l \in LineSet(c) : l.msg \notin { StderrLine("").msg, CompletedLine.msg,
                                                   RunningLine.msg }

\* ---- C2 -------------------------------------------------------------------
\* C2: a call whose build root's parent holds no Doxyfile returns without
\* raising and prints exactly one line, the warning carrying the joined
\* configuration path; it prints neither "Running Doxygen..." nor
\* "Doxygen completed".
C2_MissingConfigSkips ==
    \A c \in Calls :
        ~ParentHasDoxyfile(c) =>
            /\ c.outcome = "skipped"
            /\ Len(Lines(c)) = 1
            /\ Lines(c)[1].msg = "Warning: Doxyfile not found at "
            /\ Lines(c)[1].arg = c.srcdir \o << "..", "Doxyfile" >>
            /\ ~OsPathExists(c.fs, Lines(c)[1].arg)
            /\ RunningLine \notin LineSet(c)
            /\ CompletedLine \notin LineSet(c)

\* A skipped call although a Doxyfile sits in the build root itself.
C2_Witness ==
    \E c \in Calls :
        /\ ~ParentHasDoxyfile(c)
        /\ Append(c.srcdir, "Doxyfile") \in c.fs
        /\ c.outcome = "skipped"

\* ---- C3 -------------------------------------------------------------------
\* C3 as stated: every call spawns exactly one child process if the Doxyfile
\* existed when checked and none otherwise.
C3_OneChildIffConfig ==
    \A c \in Calls : c.children = (IF c.found THEN 1 ELSE 0)

\* C3 as amended: run_doxygen invokes subprocess.run exactly once if the
\* Doxyfile existed when checked and never otherwise; that invocation starts
\* exactly one child process if the doxygen executable can be launched and
\* none if it cannot; no child is started where the check returned false.
C3_OneSpawnAttemptIffConfig ==
    \A c \in Calls :
        /\ c.found = ParentHasDoxyfile(c)
        /\ c.popens = (IF ParentHasDoxyfile(c) THEN 1 ELSE 0)
        /\ c.children = (IF ParentHasDoxyfile(c) /\ c.tool.installed THEN 1 ELSE 0)
        /\ ~ParentHasDoxyfile(c) => (c.popens = 0 /\ c.children = 0)

\* One call started a child; another found the Doxyfile but no doxygen, so
\* its one invocation of subprocess.run started nothing.
C3_Witness ==
    \E a, b \in Calls :
        /\ a.found /\ a.popens = 1 /\ a.children = 1
        /\ b.found /\ b.popens = 1 /\ b.children = 0 /\ b.outcome = "raised"

C5_SpawnArguments ==
    /\ \A c \in Calls :
          c.popens > 0 =>
              /\ Len(c.argv) = 2
              /\ c.argv[1] = "doxygen"
              /\ c.argv[2] = c.srcdir \o << "..", "Doxyfile" >>
              /\ Realpath(<<>>, c.argv[2]) = Append(Parent(c.srcdir), "Doxyfile")
              /\ c.cwd = c.srcdir
              /\ c.cwd # Parent(c.srcdir)
    /\ child.state # "none" =>
          /\ child.cwd = app.srcdir
          /\ child.argv = calls[Len(calls)].argv

C5_Witness ==
    /\ pc = "waiting"
    /\ child.state = "running"
    /\ child.cwd = << "repo", "docs" >>
    /\ child.argv[2] = << "repo", "docs", "..", "Doxyfile" >>

C7_SameInputsSameOutcome ==
    \A i, j \in 1 .. Len(calls) :
        ( /\ i < j
          /\ Over(calls[i]) /\ Over(calls[j])
          /\ calls[i].srcdir = calls[j].srcdir
          /\ calls[i].fs = calls[j].fs
          /\ calls[i].tool = calls[j].tool ) =>
            /\ calls[i].outcome = calls[j].outcome
            /\ Lines(calls[i]) = Lines(calls[j])

\* Two consecutive calls in an unchanged environment, both warn-and-proceed.
C7_Witness ==
    /\ Len(calls) >= 2
    /\ calls[1].fs = calls[2].fs
    /\ calls[1].tool = calls[2].tool
    /\ calls[1].outcome = "tool_failure"
    /\ calls[2].outcome = "tool_failure"

\* ---- C8 -------------------------------------------------------------------
\* C8: the module-level configuration values hold their load-time values in
\* every state: neither setup nor run_doxygen, on any outcome path, changes
\* them.
C8_ConfigurationNeverMutated == module = ConfPy

\* setup has run, one call of run_doxygen skipped and a later one saw the
\* tool fail.
C8_Witness ==
    /\ app.listeners # <<>>
    /\ Len(calls) = 2
    /\ calls[1].outcome = "skipped"
    /\ calls[2].outcome = "tool_failure"

====
